---- MODULE Spec2Model ----
(***************************************************************************)
(* Sentinel-1 mosaic (buteo/earth_observation/s1_mosaic.py): the weighted  *)
(* quantile estimator hood_quantile, the neighbourhood stencil             *)
(* s1_collapse, the chunked driver process_aligned and the temporal        *)
(* ordering sort_rasters.                                                  *)
(*                                                                         *)
(* Numbers.  Sample values are integers.  The floats the code computes     *)
(* (interpolated quantiles) are exact rationals <<num, den>> in lowest     *)
(* terms with den > 0; float32 rounding is not modelled.  Weights are      *)
(* integers over a common denominator: hood_quantile divides by            *)
(* cumsum[-1], so a common positive factor of the weights cancels.         *)
(* Arrays are sequences (index i of the code is index i + 1 here).         *)
(***************************************************************************)
EXTENDS Integers, Sequences, FiniteSets, TLC

VARIABLES
    \* hood_quantile applied to drawn inputs
    values, weights, quant, q_result, q_pc,
    \* sort_rasters: its argument, its locals, its program counter, and
    \* the list indices it has assigned to (as written, before Python's
    \* negative-index wrap-around)
    rasters, by_date, copy, midpoint, add, left, idx, assigned, s_pc,
    \* s1_collapse applied to drawn inputs: its arguments and its result
    arr, offsets, kernel_weights, feather, quantile, nodata, weighted,
    result, c_pc,
    \* process_aligned: its arguments (feather_weights is "None" or the
    \* feather "rasters", feather_weights_arr what line 171 loads from them,
    \* empty when there are none), its locals, the staging folder (path ->
    \* saved array), the arrays handed to array_to_raster, and the last
    \* call of s1_collapse (its array argument, the rows of the stack the
    \* argument holds, the feather weights it was given, what it returned
    \* and the rows of the stack that were kept of it).  aligned_rasters is
    \* the grid metadata of the rasters, weights_borders the local of the
    \* unchunked path
    arr_aligned, aligned_rasters, feather_weights, feather_weights_arr, chunks,
    kernel, uids, chunk, chunks_list, staging, written, last_call,
    weights_borders, pc,
    \* mosaic_s1: its arguments, the tiles that intersect the master raster,
    \* the files of folder_tmp and of the reprojection temporaries, its
    \* locals (reprojected is empty while the name is unbound), the calls it
    \* has made to the raster library, its program counter
    vv_or_vv_paths, is_list, skip_completed, feather_borders, intersecting,
    files, clipped, m_idx, reprojected, ops, m_pc,
    \* mosaic_s1's nodata_value argument, and the sentinel each stage of the
    \* run was given, as [stage, value] in call order
    m_nodata_value, stage_nodata,
    \* hood_quantile and the order np.argsort leaves equal values in
    \* (sort_kind), the mask it returned, and the same call on the pairs
    \* with two neighbours exchanged (entries swap and swap + 1, none when
    \* swap is 0; swapped_result is what that call returned)
    sort_kind, sort_mask, swap, swapped_result,
    \* chunked runs of process_aligned that share folder_tmp: per run its
    \* token, chunk count, loop index, chunks_list, what the merge loaded
    \* and its program counter; the folder (path -> the run and chunk whose
    \* result the file holds); the tokens uuid4 has given out
    run_uids, run_chunks, run_chunk, run_list, run_merged, run_pc, folder,
    issued

q_vars == <<values, weights, quant, q_result, q_pc>>
s_vars == <<rasters, by_date, copy, midpoint, add, left, idx, assigned, s_pc>>
c_vars == <<arr, offsets, kernel_weights, feather, quantile, nodata, weighted,
            result, c_pc>>
p_vars == <<arr_aligned, aligned_rasters, feather_weights, feather_weights_arr,
            chunks, kernel, uids, chunk, chunks_list, staging, written,
            last_call, weights_borders, pc>>
m_vars == <<vv_or_vv_paths, is_list, skip_completed, feather_borders,
            intersecting, files, clipped, m_idx, reprojected, ops, m_pc,
           m_nodata_value, stage_nodata>>
t_vars == <<sort_kind, sort_mask, swap, swapped_result>>
r_vars == <<run_uids, run_chunks, run_chunk, run_list, run_merged, run_pc,
            folder, issued>>
vars == <<q_vars, s_vars, c_vars, p_vars, m_vars, t_vars, r_vars>>

----------------------------------------------------------------------------
(* Bounds of the model *)
MaxLen == 4
QuantHalfDen == 2
MaxRasters == 5
\* stacks handed to s1_collapse directly: rows, columns, layers, samples
CollapseRows == 2
CollapseCols == 2
CollapseDepth == 3
CollapseCells == 4
\* stacks handed to process_aligned, and its chunk counts 1..MaxChunks
MaxRows == 4
MaxCols == 2
MaxDepth == 3
MaxCells == 6
MaxChunks == 5
\* the tiles handed to mosaic_s1
MaxTiles == 3
\* longest hood of SpecTies
MaxPairs == 3
\* the stacks of SpecLocal: up to LocalRows x LocalCols x LocalDepth with
\* at most LocalCells samples
LocalRows == 3
LocalCols == 3
LocalDepth == 3
LocalCells == 9
\* SpecStaging: the runs that overlap and the most chunks a run has
MaxRuns == 2
StagedChunks == 3

(* Inputs are drawn from these sets *)
SampleValues == {-10, 10, 30}
SampleWeights == {0, 1, 2}

\* nodata_value=-9999.0, the default of s1_collapse and mosaic_s1
NoDataValue == -9999
\* the samples of a stack: the sentinel, a negative and a positive value
StackValues == {NoDataValue, -10, 30}
Quantiles == {<<k, 2 * QuantHalfDen>> : k \in 0..(2 * QuantHalfDen)}

----------------------------------------------------------------------------
(* Exact rational arithmetic for the floats of the code *)
Abs(i) == IF i < 0 THEN -i ELSE i

RECURSIVE GCD(_, _)
GCD(a, b) == IF b = 0 THEN a ELSE GCD(b, a % b)

Rat(n, d) ==
    LET g == GCD(Abs(n), Abs(d))
        s == IF d < 0 THEN -1 ELSE 1
    IN  <<(s * n) \div g, (s * d) \div g>>

RatLE(a, b) == a[1] * b[2] <= b[1] * a[2]

\* s[lo] + ... + s[hi], by halves
RECURSIVE SumRange(_, _, _)
SumRange(s, lo, hi) ==
    IF lo > hi THEN 0
    ELSE IF lo = hi THEN s[lo]
    ELSE SumRange(s, lo, (lo + hi) \div 2)
         + SumRange(s, (lo + hi) \div 2 + 1, hi)

SumSeq(s) == SumRange(s, 1, Len(s))

\* a function over 1..n as the tuple of its values
AsTuple(f, n) == SubSeq(f, 1, n)

----------------------------------------------------------------------------
(* np.argsort(values): the permutation that sorts values ascending; equal  *)
(* values keep their index order.  SortedPosition is the place index k     *)
(* gets, argsort the index found at each place.                            *)
SortedPosition(v, k) ==
    Cardinality({j \in 1..Len(v) : v[j] < v[k] \/ (v[j] = v[k] /\ j < k)}) + 1

\* a sort that orders the wrong way round
argsort_desc(v) ==
    LET pos == AsTuple([k \in 1..Len(v) |-> SortedPosition(v, k)], Len(v))
    IN  AsTuple([i \in 1..Len(v) |->
                    CHOOSE k \in 1..Len(v) : pos[k] = Len(v) + 1 - i], Len(v))

argsort(v) ==
    LET pos == AsTuple([k \in 1..Len(v) |-> SortedPosition(v, k)], Len(v))
    IN  AsTuple([i \in 1..Len(v) |-> CHOOSE k \in 1..Len(v) : pos[k] = i],
                Len(v))

\* np.argsort's default kind is quicksort, which does not promise to keep
\* equal values in index order.  An outcome that does not: equal values
\* in descending index order
SortedPositionReversed(v, k) ==
    Cardinality({j \in 1..Len(v) : v[j] < v[k] \/ (v[j] = v[k] /\ j > k)}) + 1

argsort_reverse_ties(v) ==
    LET pos == AsTuple([k \in 1..Len(v) |-> SortedPositionReversed(v, k)],
                       Len(v))
    IN  AsTuple([i \in 1..Len(v) |-> CHOOSE k \in 1..Len(v) : pos[k] = i],
                Len(v))

Take(v, mask) == AsTuple([i \in 1..Len(mask) |-> v[mask[i]]], Len(mask))

cumsum(w) == AsTuple([i \in 1..Len(w) |-> SumRange(w, 1, i)], Len(w))

\* an interpolation that does not stop at the ends: the line through the
\* first and the last point
interp_unclamped(x, XP, xpd, fp) ==
    LET n == Len(fp)
    IN  IF XP[n] = XP[1] THEN Rat(fp[1], 1)
        ELSE Rat(fp[1] * x[2] * (XP[n] - XP[1])
                   + (fp[n] - fp[1]) * (x[1] * xpd - XP[1] * x[2]),
                 x[2] * (XP[n] - XP[1]))

(* np.interp(x, xp, fp) for x = x[1]/x[2] and xp[i] = XP[i]/xpd, xp        *)
(* non-decreasing: fp[0] left of xp[0], fp[-1] right of xp[-1], else the   *)
(* binary search's j (the last j with xp[j] <= x) and the line from        *)
(* (xp[j], fp[j]) to (xp[j+1], fp[j+1]).                                   *)
interp(x, XP, xpd, fp) ==
    LET n == Len(fp)
        lt(i) == x[1] * xpd < XP[i] * x[2]      \* x < xp[i]
        gt(i) == x[1] * xpd > XP[i] * x[2]      \* x > xp[i]
    IN  IF lt(1) THEN Rat(fp[1], 1)
        ELSE IF gt(n) THEN Rat(fp[n], 1)
        ELSE LET j == CHOOSE i \in 1..n : ~lt(i) /\ (i = n \/ lt(i + 1))
             IN  IF j = n THEN Rat(fp[n], 1)
                 ELSE LET dx == XP[j + 1] - XP[j]
                      IN  Rat(fp[j] * x[2] * dx
                                + (fp[j + 1] - fp[j]) * (x[1] * xpd - XP[j] * x[2]),
                              x[2] * dx)

\* positions without the half-weight shift
intersect_nohalf(cs, sw) == AsTuple([i \in 1..Len(cs) |-> 2 * cs[i]], Len(cs))

\* intersect[i] = (cumsum[i] - 0.5 * w[i]) / cumsum[-1]
\*              = (2 * cumsum[i] - w[i]) / (2 * cumsum[-1]): the numerators
intersect_num(cs, sw) ==
    AsTuple([i \in 1..Len(cs) |-> 2 * cs[i] - sw[i]], Len(cs))

\* lines 58-62 of hood_quantile: the sorted values and their positions
\* (numerators intersect over the denominator 2 * cumsum[-1])
hood_sorted_by(v, w, mask) ==
    LET sorted_data == Take(v, mask)
        sorted_weights == Take(w, mask)
        cs == cumsum(sorted_weights)
    IN  [sorted_data |-> sorted_data,
         intersect |-> intersect_num(cs, sorted_weights),
         total |-> cs[Len(cs)]]

\* with equal values left in index order
hood_sorted(v, w) == hood_sorted_by(v, w, argsort(v))

\* line 58 for the tie order of the build
argsort_by(kind, v) ==
    IF kind = "index" THEN argsort(v) ELSE argsort_reverse_ties(v)

\* line 63 of hood_quantile
hood_interp(h, q) == interp(q, h.intersect, 2 * h.total, h.sorted_data)

(* hood_quantile(values, weights, quant) *)
hood_quantile(v, w, q) == hood_interp(hood_sorted(v, w), q)

----------------------------------------------------------------------------
(* s1_collapse.  A stack is a sequence of rows, a row a sequence of        *)
(* columns, a column the sequence of its layers.                           *)

Rows(a) == Len(a)
Cols(a) == Len(a[1])
Depth(a) == Len(a[1][1])

\* an index that is cut off at 0 instead of wrapping around
WrapAt_cut(a, i) == IF i < 0 THEN a[1] ELSE a[i + 1]

\* a[i] of a numpy axis for -len <= i < len: a negative index wraps around
WrapAt(a, i) == IF i < 0 THEN a[Len(a) + i + 1] ELSE a[i + 1]

Clamp(v, lo, hi) == IF v < lo THEN lo ELSE IF v > hi THEN hi ELSE v

\* a candidate that reaches two rows and two columns away
Candidate_far(a, x, y, off) ==
    LET x_adj == Rows(a) - 1
        y_adj == Cols(a) - 1
        z_adj == (Depth(a) - 1) \div 2
    IN  [x |-> Clamp(x + 2 * off[1], 0, x_adj),
         y |-> Clamp(y + 2 * off[2], 0, y_adj),
         z |-> Clamp(off[3], -z_adj, z_adj),
         outside |-> \/ off[3] < -z_adj \/ off[3] > z_adj
                     \/ x + 2 * off[1] < 0 \/ x + 2 * off[1] > x_adj
                     \/ y + 2 * off[2] < 0 \/ y + 2 * off[2] > y_adj]

\* a candidate whose temporal index is counted from the middle layer
Candidate_centred(a, x, y, off) ==
    LET x_adj == Rows(a) - 1
        y_adj == Cols(a) - 1
        z_adj == (Depth(a) - 1) \div 2
    IN  [x |-> Clamp(x + off[1], 0, x_adj),
         y |-> Clamp(y + off[2], 0, y_adj),
         z |-> Clamp(off[3], -z_adj, z_adj) + Depth(a) \div 2,
         outside |-> \/ off[3] < -z_adj \/ off[3] > z_adj
                     \/ x + off[1] < 0 \/ x + off[1] > x_adj
                     \/ y + off[2] < 0 \/ y + off[2] > y_adj]

\* lines 95-120: the clamped coordinates of kernel offset off at pixel
\* (x, y) and whether any of them had to be clamped
Candidate(a, x, y, off) ==
    LET x_adj == Rows(a) - 1
        y_adj == Cols(a) - 1
        z_adj == (Depth(a) - 1) \div 2
        offset_x == x + off[1]
        offset_y == y + off[2]
        offset_z == off[3]
    IN  [x |-> Clamp(offset_x, 0, x_adj),
         y |-> Clamp(offset_y, 0, y_adj),
         z |-> Clamp(offset_z, -z_adj, z_adj),
         outside |-> \/ offset_z < -z_adj \/ offset_z > z_adj
                     \/ offset_x < 0 \/ offset_x > x_adj
                     \/ offset_y < 0 \/ offset_y > y_adj]

\* line 122 (and the feather read of line 128): a[x, y, z]
ReadAt(a, c) == WrapAt(a[c.x + 1][c.y + 1], c.z)

\* a candidate test that forgets the outside flag
Dropped_nodata_only(a, c, nd, nodata_value) ==
    nd /\ ReadAt(a, c) = nodata_value

\* line 124: outside or (nodata and value == nodata_value)
Dropped(a, c, nd, nodata_value) ==
    c.outside \/ (nd /\ ReadAt(a, c) = nodata_value)

\* lines 90-131: hood_values and hood_weights of pixel (x, y); a dropped
\* candidate keeps the zeros the two arrays were created with
hood_values(a, offs, x, y, nd, nodata_value) ==
    AsTuple([n \in 1..Len(offs) |->
                LET c == Candidate(a, x, y, offs[n])
                IN  IF Dropped(a, c, nd, nodata_value) THEN 0 ELSE ReadAt(a, c)],
            Len(offs))

hood_weights(a, offs, kw, fw, x, y, nd, nodata_value) ==
    AsTuple([n \in 1..Len(offs) |->
                LET c == Candidate(a, x, y, offs[n])
                IN  IF Dropped(a, c, nd, nodata_value) THEN 0
                    ELSE kw[n] * ReadAt(fw, c)],
            Len(offs))

\* np.median(v)
np_median(v) ==
    LET s == Take(v, argsort(v))
        n == Len(v)
    IN  IF n % 2 = 1 THEN Rat(s[(n + 1) \div 2], 1)
        ELSE Rat(s[n \div 2] + s[n \div 2 + 1], 2)

\* v[np.nonzero(w)], by halves
RECURSIVE NonZeroRange(_, _, _, _)
NonZeroRange(v, w, lo, hi) ==
    IF lo > hi THEN << >>
    ELSE IF lo = hi THEN (IF w[lo] # 0 THEN <<v[lo]>> ELSE << >>)
    ELSE NonZeroRange(v, w, lo, (lo + hi) \div 2)
         \o NonZeroRange(v, w, (lo + hi) \div 2 + 1, hi)

NonZeroOf(v, w) == NonZeroRange(v, w, 1, Len(v))

\* a result array that starts as zeros whatever the nodata flag
InitialValue_zeros(nd, nodata_value) == 0

\* lines 82-85: what result is filled with before the pixel loop
InitialValue(nd, nodata_value) == IF nd THEN nodata_value ELSE 0

\* lines 133-139: the value of result[x, y].  hood_weights is
\* divided by weight_sum (line 133); the weights are kept as numerators
\* over that common denominator.
Pixel(a, offs, kw, fw, q, nd, nodata_value, wtd, x, y) ==
    LET hv == hood_values(a, offs, x, y, nd, nodata_value)
        hw == hood_weights(a, offs, kw, fw, x, y, nd, nodata_value)
        weight_sum == SumSeq(hw)
    IN  IF weight_sum > 0
        THEN IF wtd THEN hood_quantile(hv, hw, q)
             ELSE np_median(NonZeroOf(hv, hw))
        ELSE Rat(InitialValue(nd, nodata_value), 1)

s1_collapse(a, offs, kw, fw, q, nd, nodata_value, wtd) ==
    [x \in 1..Rows(a) |->
        [y \in 1..Cols(a) |->
            Pixel(a, offs, kw, fw, q, nd, nodata_value, wtd, x - 1, y - 1)]]

----------------------------------------------------------------------------
(* Inputs of s1_collapse *)

\* every stack of the given shape
StacksOf(r, c, d) == [1..r -> [1..c -> [1..d -> StackValues]]]

Shapes(mr, mc, md, cells) ==
    {sh \in (1..mr) \X (1..mc) \X (1..md) : sh[1] * sh[2] * sh[3] <= cells}

\* section 8's scenario: 3x3x3, nodata but for the centre's 10, 20, 30
ScenarioStack ==
    [x \in 1..3 |-> [y \in 1..3 |-> [z \in 1..3 |->
        IF x = 2 /\ y = 2 THEN 10 * z ELSE NoDataValue]]]

\* the offsets (dx, dy, dz) of the 3 x 3 x (2 zr + 1) box, dx outermost
BoxOffsets(zr) ==
    LET nz == 2 * zr + 1
    IN  AsTuple([i \in 1..(9 * nz) |->
                    <<((i - 1) \div (3 * nz)) - 1,
                      (((i - 1) \div nz) % 3) - 1,
                      ((i - 1) % nz) - zr>>],
                9 * nz)

\* the kernel table of section 4.2 for a stack of depth d: dx, dy in
\* -1..1, dz in -floor((d-1)/2)..floor((d-1)/2), weights positive
KernelOffsets(d) == BoxOffsets((d - 1) \div 2)

UniformWeights(offs) == [n \in 1..Len(offs) |-> 1]

\* weights that fall with the distance from the centre
DistanceWeights(offs) ==
    [n \in 1..Len(offs) |-> 3 - Abs(offs[n][1]) - Abs(offs[n][2])]

\* kernel tables s1_collapse is tried on: the table of the depth, uniform
\* and not; a table one layer too deep on each side; a table with only the
\* three forward neighbours (its zero weights removed)
ForwardOffsets == <<(<<1, 0, 0>>), (<<0, 1, 0>>), (<<0, 0, 1>>)>>

KernelChoices(d) ==
    { [offsets |-> KernelOffsets(d), weights |-> UniformWeights(KernelOffsets(d))],
      [offsets |-> KernelOffsets(d), weights |-> DistanceWeights(KernelOffsets(d))],
      [offsets |-> BoxOffsets((d - 1) \div 2 + 1),
       weights |-> UniformWeights(BoxOffsets((d - 1) \div 2 + 1))],
      [offsets |-> ForwardOffsets, weights |-> UniformWeights(ForwardOffsets)] }

\* np.ones_like(a)
ones_like(a) == [x \in 1..Rows(a) |-> [y \in 1..Cols(a) |-> [z \in 1..Depth(a) |-> 1]]]

\* a feather stack with weights 0, 1 and 2
PatternFeather(a) ==
    [x \in 1..Rows(a) |-> [y \in 1..Cols(a) |-> [z \in 1..Depth(a) |->
        (x + y + z) % 3]]]

CollapseQuantiles == {<<1, 4>>, <<1, 2>>}

\* stacks handed to process_aligned: any set of samples may be nodata,
\* the others hold a backscatter that varies with row, column and layer
\* and takes both signs
Backscatter(x, y, z) == 10 * ((3 * x + 5 * y + 7 * z) % 5) - 25

CellsOf(sh) == (1..sh[1]) \X (1..sh[2]) \X (1..sh[3])

StackWith(sh, valid) ==
    [x \in 1..sh[1] |-> [y \in 1..sh[2] |-> [z \in 1..sh[3] |->
        IF <<x, y, z>> \in valid THEN Backscatter(x, y, z) ELSE NoDataValue]]]

AlignedStacks ==
    UNION {{StackWith(sh, valid) : valid \in SUBSET CellsOf(sh)} :
              sh \in Shapes(MaxRows, MaxCols, MaxDepth, MaxCells)}

----------------------------------------------------------------------------
(* process_aligned: its pieces *)

Min(a, b) == IF a < b THEN a ELSE b
Max(a, b) == IF a > b THEN a ELSE b

\* a[start:stop] of Python: negative bounds count from the end, bounds are
\* cut to [0, len], an empty range gives an empty array
PySlice(a, start, stop) ==
    LET n == Len(a)
        lo == IF start < 0 THEN Max(start + n, 0) ELSE Min(start, n)
        hi == IF stop < 0 THEN Max(stop + n, 0) ELSE Min(stop, n)
    IN  IF lo >= hi THEN << >> ELSE SubSeq(a, lo + 1, hi)

\* line 153
kernel_size == 3

\* line 154
chunk_offset == kernel_size \div 2

\* the quantile=0.5 default of s1_collapse, which process_aligned leaves
DefaultQuantile == <<1, 2>>

\* lines 156-166: the table create_kernel gives for (3, 3, D)
create_kernel(d) ==
    [offsets |-> KernelOffsets(d), weights |-> DistanceWeights(KernelOffsets(d))]

\* chunk ranges without the halo row at the start
ChunkStart_nohalo(c, k, r) == c * (r \div k)

\* lines 185-200 for the chunk with index c of k over r rows
ChunkStart(c, k, r) == IF c = 0 THEN 0 ELSE c * (r \div k) - chunk_offset
ChunkEnd(c, k, r) ==
    IF c = k - 1 THEN r ELSE (c + 1) * (r \div k) + chunk_offset

\* lines 220-225: the rows of the collapsed slice that are kept
OffsetStart(c) == IF c # 0 THEN chunk_offset ELSE 0
OffsetEnd(c, k, rows) == IF c # k - 1 THEN rows - chunk_offset ELSE rows

DigitChars == <<"0", "1", "2", "3", "4", "5", "6", "7", "8", "9">>

\* str(c) for c >= 0, a character at a time
RECURSIVE Decimal(_)
Decimal(c) ==
    IF c < 10 THEN <<DigitChars[c + 1]>>
    ELSE Decimal(c \div 10) \o <<DigitChars[(c % 10) + 1]>>

\* a staging key without the run's token
ChunkPath_no_token(u, c) == <<"_chunk_">> \o Decimal(c) \o <<".npy">>

\* line 227: folder_tmp + f"{uids}_chunk_{chunk}.npy", as the token
\* followed by the characters of the rest
ChunkPath(u, c) == <<u, "_chunk_">> \o Decimal(c) \o <<".npy">>

\* line 230: np.save(path, a) into the store
np_save_nothing(store, path, a) == store

np_save(store, path, a) ==
    [p \in DOMAIN store \cup {path} |-> IF p = path THEN a ELSE store[p]]

\* np.concatenate of the arrays loaded from the paths, in list order
RECURSIVE Concatenate(_, _)
Concatenate(paths, store) ==
    IF paths = << >> THEN << >>
    ELSE store[paths[1]] \o Concatenate(Tail(paths), store)

\* line 243 / 272: np.ma.masked_array(a, mask=a == nodata_value)
Masked(a, nodata_value) ==
    [data |-> a,
     mask |-> [x \in 1..Len(a) |-> [y \in 1..Len(a[x]) |->
                  a[x][y] = <<nodata_value, 1>>]]]

\* the row numbers 0..R-1 of the stack, sliced and trimmed as the code
\* slices and trims the rows themselves
RowIndex(a) == AsTuple([i \in 1..Len(a) |-> i - 1], Len(a))

\* core_raster.py line 269: threshold=0.001; coordinates and pixel sizes
\* are counted in units of 0.001
threshold == 1

\* the metadata rasters_are_aligned compares; transform is the geotransform
GridMeta(projection, pixel_width, x_min, width) ==
    [projection |-> projection, pixel_width |-> pixel_width, x_min |-> x_min,
     transform |-> <<x_min, pixel_width>>, width |-> width]

BaseGrid == GridMeta("utm32", 10000, 0, 2)

\* the base grid and grids that differ from it in one respect: the
\* projection, the origin by the threshold or by more, the width
GridChoices ==
    {BaseGrid,
     GridMeta("utm33", 10000, 0, 2),
     GridMeta("utm32", 10000, threshold, 2),
     GridMeta("utm32", 10000, 5 * threshold, 2),
     GridMeta("utm32", 10000, 0, 3)}

\* d rasters on the base grid, but for the last of several
GridsOf(d) ==
    {[i \in 1..d |-> IF i = d /\ d > 1 THEN g ELSE BaseGrid] : g \in GridChoices}

\* core_raster.py rasters_are_aligned with its defaults (same_extent=True,
\* same_dtype=False, same_nodata=False): every raster against the first
rasters_are_aligned(rs) ==
    IF Len(rs) = 1 THEN TRUE
    ELSE \A i \in 2..Len(rs) :
            /\ rs[i].projection = rs[1].projection
            /\ Abs(rs[i].pixel_width - rs[1].pixel_width) <= threshold
            /\ Abs(rs[i].x_min - rs[1].x_min) <= threshold
            /\ rs[i].transform = rs[1].transform
            /\ rs[i].width = rs[1].width

\* an alignment check that never raises
NotAlignedRaises_never(rs) == rs # rs

\* lines 173-174 (and line 168's raster_to_array, core_raster.py line 533)
NotAlignedRaises(rs) == ~rasters_are_aligned(rs)

PIdle ==
    /\ arr_aligned = << >>
    /\ aligned_rasters = << >>
    /\ weights_borders = << >>
    /\ feather_weights = "None"
    /\ feather_weights_arr = << >>
    /\ chunks = 0
    /\ kernel = << >>
    /\ uids = "None"
    /\ chunk = 0
    /\ chunks_list = << >>
    /\ staging = << >>
    /\ written = << >>
    /\ last_call = << >>
    /\ pc = "idle"

----------------------------------------------------------------------------
(* mosaic_s1: its pieces *)

\* lines 313-314: folder_tmp + <basename of img> + "_clipped.tif"
ClippedPath(img) == <<"clipped", img>>

\* the temporary reproject_raster returns for img
ReprojectedPath(img) == <<"reprojected", img>>

\* a precondition test that lets every input through
PreconditionFails_never(lst, paths) == lst /\ ~lst

\* lines 302-306: not a list, or a list of fewer than 2 identifiers
PreconditionFails(lst, paths) == ~lst \/ Len(paths) < 2

\* an intersection test that accepts every tile
rasters_intersect_always(img, inter) == img = img

\* line 326: rasters_intersect(reprojected, master_raster), for the
\* reprojection of tile img (core_raster.py line 1167: the two bounding
\* boxes intersect)
rasters_intersect(img, inter) == img \in inter

\* gdal.Unlink(path): the file is removed; a missing file is no error
Unlink(fs, path) == fs \ {path}

\* a call to the raster library
Call(op, arg) == [op |-> op, arg |-> arg]

\* the sentinel a stage was given
StageUse(stage, value) == [stage |-> stage, value |-> value]

\* line 361: the literal calc_proximity is given as its target_value
ProximityTarget == -9999

\* the nodata_value arguments tried: the default of line 296 and another
NodataChoices == {NoDataValue, 0}

MIdle ==
    /\ vv_or_vv_paths = << >>
    /\ is_list = FALSE
    /\ skip_completed = FALSE
    /\ feather_borders = FALSE
    /\ intersecting = {}
    /\ files = {}
    /\ clipped = << >>
    /\ m_idx = 0
    /\ reprojected = << >>
    /\ ops = << >>
    /\ m_pc = "idle"
    /\ m_nodata_value = NoDataValue
    /\ stage_nodata = << >>

----------------------------------------------------------------------------
(* sort_rasters: its pieces *)

\* a sort by date that turns equal dates round
sorted_by_date_unstable(rs) ==
    Take(rs, argsort_reverse_ties([i \in 1..Len(rs) |-> rs[i].date]))

\* sorted(rasters, key=name_to_date): ascending by date, stable
sorted_by_date(rs) == Take(rs, argsort([i \in 1..Len(rs) |-> rs[i].date]))

\* list(range(len(rasters))): integer placeholders
PlaceHolders(n) == [i \in 1..n |-> [int |-> i - 1]]

\* a midpoint rounded down instead of up
Midpoint_low(n) == (n - 1) \div 2

Midpoint(n) == n \div 2

StartLeft == TRUE

\* the two sides swapped
NextSlot_swapped(mid, a, l) == IF l THEN mid + a ELSE mid - a

NextSlot(mid, a, l) == IF l THEN mid - a ELSE mid + a

\* Python list indexing: a negative index counts from the end, an index
\* outside [-len, len - 1] raises IndexError
PyIndexOk(lst, i) == -Len(lst) <= i /\ i < Len(lst)

PyIndex(lst, i) == IF i < 0 THEN Len(lst) + i + 1 ELSE i + 1

PySetItem(lst, i, v) == [lst EXCEPT ![PyIndex(lst, i)] = v]

SIdle ==
    /\ rasters = << >>
    /\ by_date = << >>
    /\ copy = << >>
    /\ midpoint = 0
    /\ add = 0
    /\ left = FALSE
    /\ idx = 0
    /\ assigned = << >>
    /\ s_pc = "idle"

----------------------------------------------------------------------------
(* Specification SpecQuantile: hood_quantile on drawn inputs *)
SeqsUpTo(S, n) == UNION {[1..k -> S] : k \in 1..n}

TIdle ==
    /\ sort_kind = "index"
    /\ sort_mask = << >>
    /\ swap = 0
    /\ swapped_result = <<0, 1>>

RIdle ==
    /\ run_uids = << >>
    /\ run_chunks = << >>
    /\ run_chunk = << >>
    /\ run_list = << >>
    /\ run_merged = << >>
    /\ run_pc = << >>
    /\ folder = << >>
    /\ issued = {}

QIdle ==
    /\ values = << >>
    /\ weights = << >>
    /\ quant = <<0, 1>>
    /\ q_result = <<0, 1>>
    /\ q_pc = "idle"

CIdle ==
    /\ arr = << >>
    /\ offsets = << >>
    /\ kernel_weights = << >>
    /\ feather = << >>
    /\ quantile = <<0, 1>>
    /\ nodata = FALSE
    /\ weighted = FALSE
    /\ result = << >>
    /\ c_pc = "idle"

QInit ==
    /\ TIdle
    /\ RIdle
    /\ MIdle
    /\ SIdle
    /\ PIdle
    /\ CIdle
    /\ values \in SeqsUpTo(SampleValues, MaxLen)
    /\ weights \in [1..Len(values) -> SampleWeights]
    /\ SumSeq(weights) > 0
    /\ quant = <<0, 1>>
    /\ q_result = <<0, 1>>
    /\ q_pc = "input"

QEvaluate ==
    \* hood_quantile(values, weights, q) for a drawn q
    /\ \E h \in {hood_sorted(values, weights)} :
           \E q \in Quantiles :
              /\ quant' = q
              /\ q_result' = hood_interp(h, q)
    /\ q_pc' = "evaluated"
    /\ UNCHANGED <<values, weights>>
    /\ UNCHANGED <<s_vars, c_vars, p_vars, m_vars, t_vars, r_vars>>

QNext == QEvaluate

SpecQuantile == QInit /\ [][QNext]_vars

----------------------------------------------------------------------------
(* Specification SpecTies: hood_quantile when values repeat.  Line 58 calls
   np.argsort(values) without a kind, so the sort is the default quicksort,
   which promises no order among equal values: the order the build gives
   them is drawn once (sort_kind) and used by every call.  The same call is
   made a second time on the (value, weight) pairs with two neighbours
   exchanged. *)
SwapAt(s, k) ==
    IF k = 0 THEN s
    ELSE [i \in 1..Len(s) |->
            IF i = k THEN s[k + 1] ELSE IF i = k + 1 THEN s[k] ELSE s[i]]

TieOrders == {"index", "reverse"}

TInit ==
    /\ RIdle
    /\ MIdle
    /\ SIdle
    /\ PIdle
    /\ CIdle
    /\ values \in SeqsUpTo(SampleValues, MaxPairs)
    /\ weights \in [1..Len(values) -> SampleWeights]
    /\ SumSeq(weights) > 0
    /\ sort_kind \in TieOrders
    /\ swap \in 0..(Len(values) - 1)
    /\ sort_mask = << >>
    /\ swapped_result = <<0, 1>>
    /\ quant = <<0, 1>>
    /\ q_result = <<0, 1>>
    /\ q_pc = "input"

TEvaluate ==
    \* hood_quantile(values, weights, q) and hood_quantile on the exchanged
    \* pairs, for a drawn q
    /\ \E mask \in {argsort_by(sort_kind, values)} :
       \E sv \in {AsTuple(SwapAt(values, swap), Len(values))} :
       \E sw \in {AsTuple(SwapAt(weights, swap), Len(values))} :
       \E h \in {hood_sorted_by(values, weights, mask)} :
       \E hs \in {hood_sorted_by(sv, sw, argsort_by(sort_kind, sv))} :
       \E q \in Quantiles :
          /\ sort_mask' = AsTuple(mask, Len(values))
          /\ quant' = q
          /\ q_result' = hood_interp(h, q)
          /\ swapped_result' = hood_interp(hs, q)
    /\ q_pc' = "evaluated"
    /\ UNCHANGED <<values, weights, sort_kind, swap>>
    /\ UNCHANGED <<s_vars, c_vars, p_vars, m_vars, r_vars>>

TNext == TEvaluate

SpecTies == TInit /\ [][TNext]_vars

----------------------------------------------------------------------------
(* Specification SpecSort: sort_rasters, one action per statement group *)
SInit ==
    /\ TIdle
    /\ RIdle
    /\ MIdle
    /\ QIdle
    /\ PIdle
    /\ CIdle
    /\ \E n \in 1..MaxRasters : \E f \in [1..n -> 1..MaxRasters] :
          rasters = [i \in 1..n |-> [id |-> i, date |-> f[i]]]
    /\ by_date = << >>
    /\ copy = << >>
    /\ midpoint = 0
    /\ add = 0
    /\ left = FALSE
    /\ idx = 0
    /\ assigned = << >>
    /\ s_pc = "call"

\* lines 33-39: by_date, copy, midpoint, copy[midpoint] = by_date[0]
SortBegin ==
    /\ s_pc = "call"
    /\ by_date' = sorted_by_date(rasters)
    /\ midpoint' = Midpoint(Len(rasters))
    /\ copy' = PySetItem(PlaceHolders(Len(rasters)), midpoint', by_date'[1])
    /\ assigned' = <<midpoint'>>
    /\ add' = 1
    /\ left' = StartLeft
    /\ idx' = 0
    /\ s_pc' = "loop"
    /\ UNCHANGED rasters
    /\ UNCHANGED <<q_vars, c_vars, p_vars, m_vars, t_vars, r_vars>>

\* lines 40-51: one iteration of the for loop
SortStep ==
    /\ s_pc = "loop"
    /\ idx < Len(by_date)
    /\ idx' = idx + 1
    /\ IF idx = 0
       THEN UNCHANGED <<copy, left, add, assigned, s_pc>>
       ELSE LET slot == NextSlot(midpoint, add, left)
            IN  IF PyIndexOk(copy, slot)
                THEN /\ copy' = PySetItem(copy, slot, by_date[idx + 1])
                     /\ assigned' = Append(assigned, slot)
                     /\ left' = ~left
                     /\ add' = IF left THEN add ELSE add + 1
                     /\ s_pc' = s_pc
                ELSE \* IndexError
                     /\ s_pc' = "raised"
                     /\ UNCHANGED <<copy, left, add, assigned>>
    /\ UNCHANGED <<rasters, by_date, midpoint>>
    /\ UNCHANGED <<q_vars, c_vars, p_vars, m_vars, t_vars, r_vars>>

\* line 53: return copy
SortReturn ==
    /\ s_pc = "loop"
    /\ idx = Len(by_date)
    /\ s_pc' = "done"
    /\ UNCHANGED <<rasters, by_date, copy, midpoint, add, left, idx, assigned>>
    /\ UNCHANGED <<q_vars, c_vars, p_vars, m_vars, t_vars, r_vars>>

SNext == SortBegin \/ SortStep \/ SortReturn

SpecSort == SInit /\ [][SNext]_vars

----------------------------------------------------------------------------
(* Specification SpecCollapse: s1_collapse on drawn inputs *)
CInit ==
    /\ TIdle
    /\ RIdle
    /\ MIdle
    /\ QIdle
    /\ PIdle
    /\ SIdle
    /\ arr \in UNION {StacksOf(sh[1], sh[2], sh[3]) :
                       sh \in Shapes(CollapseRows, CollapseCols, CollapseDepth,
                                     CollapseCells)}
                \cup {ScenarioStack}
    /\ \E k \in KernelChoices(Depth(arr)) :
          /\ offsets = k.offsets
          /\ kernel_weights = k.weights
    /\ feather \in {ones_like(arr), PatternFeather(arr)}
    /\ quantile \in CollapseQuantiles
    /\ nodata \in BOOLEAN
    /\ weighted \in BOOLEAN
    /\ result = << >>
    /\ c_pc = "call"

Collapse ==
    /\ c_pc = "call"
    /\ result' = s1_collapse(arr, offsets, kernel_weights, feather, quantile,
                             nodata, NoDataValue, weighted)
    /\ c_pc' = "returned"
    /\ UNCHANGED <<arr, offsets, kernel_weights, feather, quantile, nodata,
                   weighted>>
    /\ UNCHANGED <<q_vars, s_vars, p_vars, m_vars, t_vars, r_vars>>

CNext == Collapse

SpecCollapse == CInit /\ [][CNext]_vars

----------------------------------------------------------------------------
(* Specification SpecLocal: s1_collapse on stacks with three or more rows
   or columns, so that every pixel has samples outside its 3 x 3 window *)
\* the kernel tables of SpecLocal: section 4.2's box with uniform weights
\* and with weights that fall with distance
LocalKernels(d) ==
    { [offsets |-> KernelOffsets(d), weights |-> UniformWeights(KernelOffsets(d))],
      [offsets |-> KernelOffsets(d), weights |-> DistanceWeights(KernelOffsets(d))] }

LInit ==
    /\ TIdle
    /\ RIdle
    /\ MIdle
    /\ QIdle
    /\ PIdle
    /\ SIdle
    /\ arr \in UNION {{StackWith(sh, valid) : valid \in SUBSET CellsOf(sh)} :
                       sh \in {t \in Shapes(LocalRows, LocalCols, LocalDepth,
                                            LocalCells) :
                                 t[1] >= 3 \/ t[2] >= 3}}
    /\ \E k \in LocalKernels(Depth(arr)) :
          /\ offsets = k.offsets
          /\ kernel_weights = k.weights
    /\ feather = PatternFeather(arr)
    /\ quantile = DefaultQuantile
    /\ nodata = TRUE
    /\ weighted \in BOOLEAN
    /\ result = << >>
    /\ c_pc = "call"

LNext == Collapse

SpecLocal == LInit /\ [][LNext]_vars

----------------------------------------------------------------------------
(* Specification SpecStaging: chunked runs of process_aligned that overlap
   and share folder_tmp.  Each run is the staging skeleton of lines
   180-240: draw the token, one np.save per chunk, one np.load per staged
   path; a staged file holds the tag of the run and chunk that wrote it.
   uuid4() is taken at its contract: a token no earlier call returned. *)
Runs == 1..MaxRuns

Tokens == {<<"uuid4", i>> : i \in 1..MaxRuns}

\* line 180: uuid4(), given the tokens handed out so far
uuid4(given) == Tokens \ given

Artifact(r, c) == [run |-> r, chunk |-> c]

RInit ==
    /\ TIdle
    /\ MIdle
    /\ QIdle
    /\ SIdle
    /\ CIdle
    /\ PIdle
    /\ run_chunks \in [Runs -> 2..StagedChunks]
    /\ run_uids = << >>
    /\ run_chunk = [r \in Runs |-> 0]
    /\ run_list = [r \in Runs |-> << >>]
    /\ run_merged = [r \in Runs |-> << >>]
    /\ run_pc = [r \in Runs |-> "call"]
    /\ folder = << >>
    /\ issued = {}

\* lines 176-180: chunks_list = [], uids = uuid4()
RunBegin ==
    \E r \in Runs :
       /\ run_pc[r] = "call"
       /\ \E t \in uuid4(issued) :
             /\ run_uids' = [q \in DOMAIN run_uids \cup {r} |->
                                IF q = r THEN t ELSE run_uids[q]]
             /\ issued' = issued \cup {t}
       /\ run_pc' = [run_pc EXCEPT ![r] = "chunking"]
       /\ UNCHANGED <<run_chunks, run_chunk, run_list, run_merged, folder>>
       /\ UNCHANGED <<q_vars, s_vars, c_vars, p_vars, m_vars, t_vars>>

\* lines 182-233: one iteration of the chunk loop, as far as the store
\* goes (lines 227-230)
RunSave ==
    \E r \in Runs :
       /\ run_pc[r] = "chunking"
       /\ run_chunk[r] < run_chunks[r]
       /\ LET chunk_path == ChunkPath(run_uids[r], run_chunk[r])
          IN  /\ run_list' = [run_list EXCEPT ![r] = Append(@, chunk_path)]
              /\ folder' = np_save(folder, chunk_path,
                                   Artifact(r, run_chunk[r]))
       /\ run_chunk' = [run_chunk EXCEPT ![r] = @ + 1]
       /\ run_pc' = [run_pc EXCEPT ![r] =
                        IF run_chunk[r] + 1 = run_chunks[r] THEN "merging"
                        ELSE "chunking"]
       /\ UNCHANGED <<run_uids, run_chunks, run_merged, issued>>
       /\ UNCHANGED <<q_vars, s_vars, c_vars, p_vars, m_vars, t_vars>>

\* lines 238-239: merged.append(np.load(chunk)) for the next staged path
RunLoad ==
    \E r \in Runs :
       /\ run_pc[r] = "merging"
       /\ Len(run_merged[r]) < Len(run_list[r])
       /\ run_merged' = [run_merged EXCEPT ![r] =
                            Append(@, folder[run_list[r][Len(@) + 1]])]
       /\ UNCHANGED <<run_uids, run_chunks, run_chunk, run_list, run_pc,
                      folder, issued>>
       /\ UNCHANGED <<q_vars, s_vars, c_vars, p_vars, m_vars, t_vars>>

\* lines 241-254: concatenate, write and return; the staged files stay
RunReturn ==
    \E r \in Runs :
       /\ run_pc[r] = "merging"
       /\ Len(run_merged[r]) = Len(run_list[r])
       /\ run_pc' = [run_pc EXCEPT ![r] = "done"]
       /\ UNCHANGED <<run_uids, run_chunks, run_chunk, run_list, run_merged,
                      folder, issued>>
       /\ UNCHANGED <<q_vars, s_vars, c_vars, p_vars, m_vars, t_vars>>

RNext == RunBegin \/ RunSave \/ RunLoad \/ RunReturn

SpecStaging == RInit /\ [][RNext]_vars

----------------------------------------------------------------------------
(* Specification Spec: process_aligned *)
Init ==
    /\ TIdle
    /\ RIdle
    /\ MIdle
    /\ QIdle
    /\ SIdle
    /\ CIdle
    /\ arr_aligned \in AlignedStacks
    /\ aligned_rasters \in GridsOf(Depth(arr_aligned))
    /\ feather_weights \in {"None", "rasters"}
    /\ feather_weights_arr = << >>
    /\ chunks \in 1..MaxChunks
    /\ kernel = << >>
    /\ uids = "None"
    /\ chunk = 0
    /\ chunks_list = << >>
    /\ staging = << >>
    /\ written = << >>
    /\ last_call = << >>
    /\ weights_borders = << >>
    /\ pc = "call"

\* lines 153-180: the kernel table, the loaded arrays, the alignment
\* check, the choice of path.  Rasters that are not aligned make line 168's
\* raster_to_array raise (core_raster.py line 533), and line 174 raises
\* for the same test
Begin ==
    /\ pc = "call"
    /\ kernel' = create_kernel(Len(aligned_rasters))
    /\ IF NotAlignedRaises(aligned_rasters)
       THEN /\ feather_weights_arr' = feather_weights_arr
            /\ uids' = uids
            /\ pc' = "raised"
       ELSE /\ feather_weights_arr' =
                  IF feather_weights # "None" THEN PatternFeather(arr_aligned)
                  ELSE << >>
            /\ IF chunks > 1
               THEN /\ uids' = "uuid"
                    /\ pc' = "chunking"
               ELSE /\ uids' = uids
                    /\ pc' = "whole"
    /\ UNCHANGED <<arr_aligned, aligned_rasters, feather_weights, chunks, chunk,
                   chunks_list, staging, written, last_call, weights_borders>>
    /\ UNCHANGED <<q_vars, s_vars, c_vars, m_vars, t_vars, r_vars>>

\* lines 182-233: one iteration of the chunk loop
ChunkStep ==
    /\ pc = "chunking"
    /\ chunk < chunks
    /\ LET chunk_start == ChunkStart(chunk, chunks, Rows(arr_aligned))
           chunk_end == ChunkEnd(chunk, chunks, Rows(arr_aligned))
           arr_chunk == PySlice(arr_aligned, chunk_start, chunk_end)
           row_chunk == PySlice(RowIndex(arr_aligned), chunk_start, chunk_end)
           weights_chunk ==
               IF feather_weights # "None"
               THEN PySlice(feather_weights_arr, chunk_start, chunk_end)
               ELSE ones_like(arr_chunk)
           arr_collapsed ==
               s1_collapse(arr_chunk, kernel.offsets, kernel.weights,
                           weights_chunk, DefaultQuantile, TRUE, NoDataValue, TRUE)
           offset_start == OffsetStart(chunk)
           offset_end == OffsetEnd(chunk, chunks, Rows(arr_collapsed))
           chunk_path == ChunkPath(uids, chunk)
       IN  /\ last_call' = <<[chunk |-> chunk,
                              arr |-> arr_chunk,
                              rows |-> row_chunk,
                              fw |-> weights_chunk,
                              out |-> arr_collapsed,
                              kept |-> PySlice(row_chunk, offset_start,
                                               offset_end)]>>
           /\ chunks_list' = Append(chunks_list, chunk_path)
           /\ staging' =
                 np_save(staging, chunk_path,
                         PySlice(arr_collapsed, offset_start, offset_end))
    /\ chunk' = chunk + 1
    /\ UNCHANGED <<arr_aligned, aligned_rasters, feather_weights,
                   feather_weights_arr, chunks, kernel, uids, written,
                   weights_borders, pc>>
    /\ UNCHANGED <<q_vars, s_vars, c_vars, m_vars, t_vars, r_vars>>

\* lines 235-254: load, concatenate, mask, write, return; the staged files
\* stay where they are
Merge ==
    /\ pc = "chunking"
    /\ chunk = chunks
    /\ written' = <<Masked(Concatenate(chunks_list, staging), NoDataValue)>>
    /\ pc' = "done"
    /\ UNCHANGED <<arr_aligned, aligned_rasters, feather_weights,
                   feather_weights_arr, chunks, kernel, uids, chunk,
                   chunks_list, staging, last_call, weights_borders>>
    /\ UNCHANGED <<q_vars, s_vars, c_vars, m_vars, t_vars, r_vars>>

\* lines 256-288 without feather weights: weights_borders is all ones
Whole ==
    /\ pc = "whole"
    /\ feather_weights = "None"
    /\ LET arr_collapsed ==
               s1_collapse(arr_aligned, kernel.offsets, kernel.weights,
                           ones_like(arr_aligned), DefaultQuantile, TRUE,
                           NoDataValue, TRUE)
       IN  /\ weights_borders' =
                 <<[kind |-> "array", arr |-> ones_like(arr_aligned)]>>
           /\ last_call' = <<[chunk |-> 0,
                              arr |-> arr_aligned,
                              rows |-> RowIndex(arr_aligned),
                              fw |-> ones_like(arr_aligned),
                              out |-> arr_collapsed,
                              kept |-> RowIndex(arr_aligned)]>>
           /\ written' = <<Masked(arr_collapsed, NoDataValue)>>
    /\ pc' = "done"
    /\ UNCHANGED <<arr_aligned, aligned_rasters, feather_weights,
                   feather_weights_arr, chunks, kernel, uids, chunk,
                   chunks_list, staging>>
    /\ UNCHANGED <<q_vars, s_vars, c_vars, m_vars, t_vars, r_vars>>

\* lines 256-270 with feather weights: weights_borders is feather_weights,
\* the raster identifiers and not the loaded feather_weights_arr; the
\* compiled s1_collapse cannot index them and the call raises
WholeFeather ==
    /\ pc = "whole"
    /\ feather_weights # "None"
    /\ weights_borders' = <<[kind |-> "identifiers", arr |-> << >>]>>
    /\ pc' = "raised"
    /\ UNCHANGED <<arr_aligned, aligned_rasters, feather_weights,
                   feather_weights_arr, chunks, kernel, uids, chunk,
                   chunks_list, staging, written, last_call>>
    /\ UNCHANGED <<q_vars, s_vars, c_vars, m_vars, t_vars, r_vars>>

Next == Begin \/ ChunkStep \/ Merge \/ Whole \/ WholeFeather

Spec == Init /\ [][Next]_vars

----------------------------------------------------------------------------
(* Specification SpecMosaic: mosaic_s1.  The tiles are 1..n in list order; *)
(* a clipped output found in folder_tmp was written by an earlier run's    *)
(* line 334, so only tiles that intersect the master raster have one.      *)
MInit ==
    /\ TIdle
    /\ RIdle
    /\ QIdle
    /\ SIdle
    /\ CIdle
    /\ PIdle
    /\ is_list \in BOOLEAN
    /\ \E n \in 0..MaxTiles : vv_or_vv_paths = [i \in 1..n |-> i]
    /\ skip_completed \in BOOLEAN
    /\ feather_borders \in BOOLEAN
    /\ intersecting \in SUBSET (1..Len(vv_or_vv_paths))
    /\ \E completed \in SUBSET intersecting :
          files = {ClippedPath(t) : t \in completed}
    /\ clipped = << >>
    /\ m_idx = 0
    /\ reprojected = << >>
    /\ ops = << >>
    /\ m_pc = "call"
    /\ m_nodata_value \in NodataChoices
    /\ stage_nodata = << >>

\* lines 302-309
MosaicCheck ==
    /\ m_pc = "call"
    /\ m_pc' = IF PreconditionFails(is_list, vv_or_vv_paths) THEN "raised"
               ELSE "clipping"
    /\ UNCHANGED <<m_nodata_value, vv_or_vv_paths, is_list, skip_completed,
                   feather_borders,
                   intersecting, files, clipped, m_idx, reprojected, ops,
                   stage_nodata>>
    /\ UNCHANGED <<q_vars, s_vars, c_vars, p_vars, t_vars, r_vars>>

\* lines 311-344: one iteration of the clipping loop.  Line 343's
\* gdal.Unlink(reprojected) reads a name that only line 320 binds: with
\* nothing reprojected so far the read raises UnboundLocalError
MosaicClip ==
    /\ m_pc = "clipping"
    /\ m_idx < Len(vv_or_vv_paths)
    /\ LET img == vv_or_vv_paths[m_idx + 1]
           out_name_clip == ClippedPath(img)
           temporary == ReprojectedPath(img)
       IN  IF skip_completed /\ out_name_clip \in files
           THEN /\ clipped' = Append(clipped, out_name_clip)
                /\ UNCHANGED <<reprojected, ops>>
                /\ IF reprojected = << >>
                   THEN /\ m_pc' = "raised"
                        /\ UNCHANGED <<files, m_idx>>
                   ELSE /\ files' = Unlink(files, reprojected[1])
                        /\ m_idx' = m_idx + 1
                        /\ m_pc' = m_pc
           ELSE /\ reprojected' = <<temporary>>
                /\ m_idx' = m_idx + 1
                /\ m_pc' = m_pc
                /\ IF ~rasters_intersect(img, intersecting)
                   THEN /\ ops' = ops \o <<Call("reproject_raster", <<img>>)>>
                        /\ files' = Unlink(files \cup {temporary}, temporary)
                        /\ clipped' = clipped
                   ELSE /\ ops' = ops \o <<Call("reproject_raster", <<img>>),
                                           Call("clip_raster", <<img>>)>>
                        /\ files' = Unlink(files \cup {temporary, out_name_clip},
                                           temporary)
                        /\ clipped' = Append(clipped, out_name_clip)
    /\ UNCHANGED <<m_nodata_value, vv_or_vv_paths, is_list, skip_completed,
                   feather_borders,
                   intersecting, stage_nodata>>
    /\ UNCHANGED <<q_vars, s_vars, c_vars, p_vars, t_vars, r_vars>>

\* lines 346-355: align_rasters(clipped, ...)
MosaicAlign ==
    /\ m_pc = "clipping"
    /\ m_idx = Len(vv_or_vv_paths)
    /\ ops' = Append(ops, Call("align_rasters", clipped))
    /\ m_pc' = "aligned"
    /\ UNCHANGED stage_nodata
    /\ UNCHANGED <<m_nodata_value, vv_or_vv_paths, is_list, skip_completed,
                   feather_borders,
                   intersecting, files, clipped, m_idx, reprojected>>
    /\ UNCHANGED <<q_vars, s_vars, c_vars, p_vars, t_vars, r_vars>>

\* lines 357-368: calc_proximity on the aligned rasters
MosaicFeather ==
    /\ m_pc = "aligned"
    /\ feather_borders
    /\ ops' = Append(ops, Call("calc_proximity", clipped))
    \* line 361: target_value=-9999.0
    /\ stage_nodata' = Append(stage_nodata, StageUse("calc_proximity",
                                                     ProximityTarget))
    /\ m_pc' = "feathered"
    /\ UNCHANGED <<m_nodata_value, vv_or_vv_paths, is_list, skip_completed,
                   feather_borders,
                   intersecting, files, clipped, m_idx, reprojected>>
    /\ UNCHANGED <<q_vars, s_vars, c_vars, p_vars, t_vars, r_vars>>

\* lines 370-381: process_aligned on the aligned rasters
MosaicProcess ==
    /\ \/ m_pc = "aligned" /\ ~feather_borders
       \/ m_pc = "feathered"
    /\ ops' = Append(ops, Call("process_aligned", clipped))
    \* line 377 hands nodata_value on; process_aligned gives it to
    \* s1_collapse (lines 216, 270) and builds the mask from it (lines 243,
    \* 272)
    /\ stage_nodata' = stage_nodata
                          \o <<StageUse("s1_collapse", m_nodata_value),
                               StageUse("mask", m_nodata_value)>>
    /\ m_pc' = "returned"
    /\ UNCHANGED <<m_nodata_value, vv_or_vv_paths, is_list, skip_completed,
                   feather_borders,
                   intersecting, files, clipped, m_idx, reprojected>>
    /\ UNCHANGED <<q_vars, s_vars, c_vars, p_vars, t_vars, r_vars>>

MNext == MosaicCheck \/ MosaicClip \/ MosaicAlign \/ MosaicFeather
             \/ MosaicProcess

SpecMosaic == MInit /\ [][MNext]_vars

----------------------------------------------------------------------------
(* Claims about hood_quantile (specification SpecQuantile) *)

Range(f) == {f[i] : i \in DOMAIN f}

\* the values in ascending order, found without the model's sort
Ascending(v) ==
    CHOOSE s \in [1..Len(v) -> Range(v)] :
        /\ \A i \in 1..(Len(v) - 1) : s[i] <= s[i + 1]
        /\ \A x \in Range(v) :
              Cardinality({i \in 1..Len(v) : s[i] = x})
                = Cardinality({i \in 1..Len(v) : v[i] = x})

\* the standard median: the middle element, or the mean of the two middle
Median(v) ==
    LET s == Ascending(v)
        n == Len(v)
    IN  IF n % 2 = 1 THEN Rat(s[(n + 1) \div 2], 1)
        ELSE Rat(s[n \div 2] + s[n \div 2 + 1], 2)

UniformPositive(w) == w[1] > 0 /\ \A i \in 1..Len(w) : w[i] = w[1]

IsHalf(q) == 2 * q[1] = q[2]

\* C6: with uniform positive weights, hood_quantile(values, weights, 0.5)
\* is the standard median of the values.
C6_UniformMedian ==
    (q_pc = "evaluated" /\ UniformPositive(weights) /\ IsHalf(quant))
        => q_result = Median(values)

\* an even number of values whose two middle values differ
C6_Witness ==
    /\ q_pc = "evaluated"
    /\ UniformPositive(weights)
    /\ IsHalf(quant)
    /\ Len(values) = 4
    /\ Ascending(values)[2] < Ascending(values)[3]
    /\ q_result = Rat(Ascending(values)[2] + Ascending(values)[3], 2)

\* C7: for fixed values and weights (non-negative, one positive), the
\* result does not decrease when the requested quantile does not decrease.
C7_MonotoneInQuantile ==
    [][(q_pc = "evaluated" /\ q_pc' = "evaluated" /\ RatLE(quant, quant'))
          => RatLE(q_result, q_result')]_vars

\* evaluated exactly at an x-coordinate that two sorted samples share
\* (the later of them has weight zero and follows a weight-zero sample)
C7_Witness ==
    /\ q_pc = "evaluated"
    /\ LET m == argsort(values)
           sw == Take(weights, m)
           sv == Take(values, m)
           p == intersect_num(cumsum(sw), sw)
       IN  \E j \in 1..(Len(values) - 1) :
              /\ p[j] = p[j + 1]
              /\ sv[j] < sv[j + 1]
              /\ quant[1] * 2 * SumSeq(weights) = p[j] * quant[2]
              /\ q_result = Rat(sv[j + 1], 1)

----------------------------------------------------------------------------
(* Claims about sort_rasters (specification SpecSort) *)

DistinctDates(rs) ==
    \A i, j \in 1..Len(rs) : i # j => rs[i].date # rs[j].date

\* how many rasters are strictly earlier than r
TimeRank(rs, r) == Cardinality({i \in 1..Len(rs) : rs[i].date < r.date})

\* the stack index the spec gives to time rank k: mid, mid-1, mid+1, ...
SpecIndex(n, k) ==
    IF k = 0 THEN n \div 2
    ELSE IF k % 2 = 1 THEN n \div 2 - (k + 1) \div 2
    ELSE n \div 2 + k \div 2

\* C8: with distinct timestamps the earliest identifier is at index
\* N // 2 and the i-th later one at mid-1, mid+1, mid-2, mid+2, ...
C8_TemporalOrdering ==
    (s_pc = "done" /\ DistinctDates(rasters))
        => \A i \in 1..Len(rasters) :
              copy[SpecIndex(Len(rasters), TimeRank(rasters, rasters[i])) + 1]
                = rasters[i]

\* five distinct dates given out of time order
C8_Witness ==
    /\ s_pc = "done"
    /\ Len(rasters) = 5
    /\ DistinctDates(rasters)
    /\ rasters[1].date > rasters[2].date
    /\ copy[3].date < copy[2].date
    /\ copy[2].date < copy[4].date
    /\ copy[4].date < copy[1].date
    /\ copy[1].date < copy[5].date

\* C9: for N >= 2 the result is a permutation of the input: N slots, each
\* an input identifier, none twice, and every assignment went to an index
\* in [0, N-1]; no assignment raised.
C9_Permutation ==
    /\ s_pc # "raised"
    /\ (s_pc = "done" /\ Len(rasters) >= 2)
          => /\ Len(copy) = Len(rasters)
             /\ \A i \in 1..Len(copy) :
                   /\ "id" \in DOMAIN copy[i]
                   /\ \E j \in 1..Len(rasters) : copy[i] = rasters[j]
             /\ \A i, j \in 1..Len(copy) :
                   (i # j /\ "id" \in DOMAIN copy[i] /\ "id" \in DOMAIN copy[j])
                       => copy[i].id # copy[j].id
             /\ \A k \in 1..Len(assigned) :
                   0 <= assigned[k] /\ assigned[k] <= Len(rasters) - 1

\* an even and an odd number of identifiers, index 0 written last
C9_Witness ==
    /\ s_pc = "done"
    /\ Len(rasters) \in {4, 5}
    /\ assigned[Len(rasters) - (Len(rasters) % 2)] = 0
    /\ Len(assigned) = Len(rasters)

\* C26: for N >= 2, an identifier with an earlier timestamp is never
\* further from index N // 2 than one with a later timestamp.
C26_DistanceMonotone ==
    (s_pc = "done" /\ Len(rasters) >= 2)
        => \A i, j \in 1..Len(copy) :
              copy[i].date < copy[j].date
                  => Abs((i - 1) - Len(rasters) \div 2)
                       <= Abs((j - 1) - Len(rasters) \div 2)

\* four identifiers of which two share a timestamp; the latest is at
\* index 0, two places from the midpoint
C26_Witness ==
    /\ s_pc = "done"
    /\ Len(rasters) = 4
    /\ ~DistinctDates(rasters)
    /\ \A i \in 2..4 : copy[i].date < copy[1].date
    /\ \A i \in {1, 2, 4} : copy[3].date < copy[i].date

\* C30: identifiers that share a timestamp are ranked in their input
\* order (the id is the input position), and the stack order follows
\* from the ranking alone.
C30_TiesInInputOrder ==
    s_pc = "done"
        => /\ \A r1, r2 \in 1..Len(by_date) :
                 r1 < r2
                     => /\ by_date[r1].date <= by_date[r2].date
                        /\ by_date[r1].date = by_date[r2].date
                              => by_date[r1].id < by_date[r2].id
           /\ \A r \in 1..Len(by_date) :
                 copy[SpecIndex(Len(rasters), r - 1) + 1] = by_date[r]

\* three identifiers with one timestamp, which end up at indices 1, 0, 2
C30_Witness ==
    /\ s_pc = "done"
    /\ Len(rasters) = 3
    /\ \A i \in 1..3 : rasters[i].date = rasters[1].date
    /\ copy = <<rasters[2], rasters[1], rasters[3]>>

----------------------------------------------------------------------------
(* Claims about s1_collapse (specification SpecCollapse) *)

\* the valid ranges of section 4.4, stated on the unclamped coordinates
InRange(a, x, y, off) ==
    /\ 0 <= x + off[1] /\ x + off[1] <= Rows(a) - 1
    /\ 0 <= y + off[2] /\ y + off[2] <= Cols(a) - 1
    /\ -((Depth(a) - 1) \div 2) <= off[3]
    /\ off[3] <= (Depth(a) - 1) \div 2

\* the sample of a an in-range offset points at (layer dz, or D + dz)
SampleAt(a, x, y, off) ==
    a[x + off[1] + 1][y + off[2] + 1]
     [IF off[3] >= 0 THEN off[3] + 1 ELSE Depth(a) + off[3] + 1]

Survives(x, y, n) ==
    /\ InRange(arr, x, y, offsets[n])
    /\ nodata => SampleAt(arr, x, y, offsets[n]) # NoDataValue

RECURSIVE SurvivorsIn(_, _, _, _)
SurvivorsIn(x, y, lo, hi) ==
    \* the surviving candidates among lo..hi, in kernel order
    IF lo > hi THEN << >>
    ELSE IF lo = hi THEN (IF Survives(x, y, lo) THEN <<lo>> ELSE << >>)
    ELSE SurvivorsIn(x, y, lo, (lo + hi) \div 2)
         \o SurvivorsIn(x, y, (lo + hi) \div 2 + 1, hi)

SurvivorsFrom(x, y, n) == SurvivorsIn(x, y, n, Len(offsets))

SurvivorValues(x, y) ==
    LET sv == SurvivorsFrom(x, y, 1)
    IN  AsTuple([i \in 1..Len(sv) |-> SampleAt(arr, x, y, offsets[sv[i]])],
                Len(sv))

SurvivorWeights(x, y) ==
    LET sv == SurvivorsFrom(x, y, 1)
    IN  AsTuple([i \in 1..Len(sv) |->
                    kernel_weights[sv[i]]
                      * SampleAt(feather, x, y, offsets[sv[i]])],
                Len(sv))

Pixels(a) ==
    IF a = << >> THEN {} ELSE (0..(Rows(a) - 1)) \X (0..(Cols(a) - 1))

\* C3: with weighted true and a positive weight sum, the output is the
\* weighted quantile of the surviving candidates alone; the dropped
\* candidates, left as value 0 with weight 0, do not change it.
C3_SurvivorsOnly ==
    (c_pc = "returned" /\ weighted)
        => \A p \in Pixels(arr) :
              SumSeq(SurvivorWeights(p[1], p[2])) > 0
                => result[p[1] + 1][p[2] + 1]
                     = hood_quantile(SurvivorValues(p[1], p[2]),
                                     SurvivorWeights(p[1], p[2]), quantile)

\* C4: a candidate with a coordinate out of range adds nothing to the
\* weight sum and its clamped read is not stored; a pixel whose in-range
\* candidates all read nodata gets the sentinel.
C4_BoundaryExclusion ==
    c_pc = "returned"
        => \A p \in Pixels(arr) :
              LET hv == hood_values(arr, offsets, p[1], p[2], nodata, NoDataValue)
                  hw == hood_weights(arr, offsets, kernel_weights, feather,
                                     p[1], p[2], nodata, NoDataValue)
              IN  /\ \A n \in 1..Len(offsets) :
                        ~InRange(arr, p[1], p[2], offsets[n])
                            => hv[n] = 0 /\ hw[n] = 0
                  /\ SumSeq(hw) = SumSeq(SurvivorWeights(p[1], p[2]))
                  /\ (nodata /\ \A n \in 1..Len(offsets) :
                                    InRange(arr, p[1], p[2], offsets[n])
                                      => SampleAt(arr, p[1], p[2], offsets[n])
                                           = NoDataValue)
                        => result[p[1] + 1][p[2] + 1] = <<NoDataValue, 1>>

\* a pixel with no in-range candidate that is not nodata, while a clamped
\* coordinate reads a real sample
C4_Witness ==
    /\ c_pc = "returned"
    /\ nodata
    /\ \E p \in Pixels(arr) :
          /\ \E n \in 1..Len(offsets) :
                /\ ~InRange(arr, p[1], p[2], offsets[n])
                /\ ReadAt(arr, Candidate(arr, p[1], p[2], offsets[n])) # NoDataValue
          /\ \A n \in 1..Len(offsets) : ~Survives(p[1], p[2], n)
          /\ result[p[1] + 1][p[2] + 1] = <<NoDataValue, 1>>

\* C10: the 3x3x3 scenario with uniform kernel and feather weights and
\* quantile 0.5 gives 20 at the central pixel.
C10_Scenario ==
    (/\ c_pc = "returned"
     /\ arr = ScenarioStack
     /\ kernel_weights = UniformWeights(offsets)
     /\ feather = ones_like(arr)
     /\ quantile = <<1, 2>>
     /\ nodata)
        => result[2][2] = <<20, 1>>

\* the scenario run with the 3x3x3 kernel table and the weighted estimator
C10_Witness ==
    /\ c_pc = "returned"
    /\ arr = ScenarioStack
    /\ offsets = KernelOffsets(3)
    /\ Len(offsets) = 27
    /\ kernel_weights = UniformWeights(offsets)
    /\ feather = ones_like(arr)
    /\ quantile = <<1, 2>>
    /\ nodata
    /\ weighted
    /\ result[2][2] = <<20, 1>>
    /\ result[1][1] = <<20, 1>>
----------------------------------------------------------------------------
(* Claims about process_aligned (specification Spec) *)

\* the feather weights of the run as an array: the loaded feather stack,
\* or all ones when no feather rasters were given
RunFeather ==
    IF feather_weights # "None" THEN feather_weights_arr ELSE ones_like(arr_aligned)

\* one s1_collapse call over the whole stack, with the run's kernel table
\* and feather weights
WholeCollapse ==
    s1_collapse(arr_aligned, kernel.offsets, kernel.weights, RunFeather,
                DefaultQuantile, TRUE, NoDataValue, TRUE)

\* C1: for every stack and every chunk count the stitched result of the
\* chunked path equals, element for element, one s1_collapse call over the
\* whole stack.
C1_ChunkInvariance ==
    (pc = "done" /\ chunks > 1) => written[1].data = WholeCollapse

\* C1 for chunk counts up to the number of rows
ChunkInvarianceWithinRows ==
    (pc = "done" /\ chunks > 1 /\ chunks <= Rows(arr_aligned))
        => written[1].data = WholeCollapse

\* C2: whatever the chunk count (more chunks than rows included), the
\* array handed to the writer has the stack's rows and columns.
C2_OutputShape ==
    pc = "done"
        => /\ Len(written[1].data) = Rows(arr_aligned)
           /\ \A x \in 1..Len(written[1].data) :
                 Len(written[1].data[x]) = Cols(arr_aligned)

\* the output shape for chunk counts up to the number of rows
OutputShapeWithinRows ==
    (pc = "done" /\ chunks <= Rows(arr_aligned))
        => /\ Len(written[1].data) = Rows(arr_aligned)
           /\ \A x \in 1..Len(written[1].data) :
                 Len(written[1].data[x]) = Cols(arr_aligned)

\* no candidate of pixel p of array a is in range and not nodata
AllNodata(a, p) ==
    \A n \in 1..Len(kernel.offsets) :
        InRange(a, p[1], p[2], kernel.offsets[n])
            => SampleAt(a, p[1], p[2], kernel.offsets[n]) = NoDataValue

\* C5: a pixel whose candidates are all out of range or nodata gets the
\* nodata sentinel: in what s1_collapse returns for the array it is given
\* (a chunk's slice or the whole stack), and in the written array wherever
\* it has a row for the pixel.
C5_AllNodataPixel ==
    /\ \A i \in 1..Len(last_call) :
          \A p \in Pixels(last_call[i].arr) :
              AllNodata(last_call[i].arr, p)
                  => last_call[i].out[p[1] + 1][p[2] + 1] = <<NoDataValue, 1>>
    /\ pc = "done"
          => \A p \in Pixels(arr_aligned) :
                (p[1] < Len(written[1].data) /\ AllNodata(arr_aligned, p))
                    => /\ written[1].data[p[1] + 1][p[2] + 1] = <<NoDataValue, 1>>
                       /\ written[1].mask[p[1] + 1][p[2] + 1]

\* a chunked run of a stack with an all-nodata pixel and a valid one
C5_Witness ==
    /\ pc = "done"
    /\ chunks > 1
    /\ chunks <= Rows(arr_aligned)
    /\ Len(written[1].data) = Rows(arr_aligned)
    /\ \E p \in Pixels(arr_aligned) :
          /\ AllNodata(arr_aligned, p)
          /\ written[1].mask[p[1] + 1][p[2] + 1]
    /\ \E p \in Pixels(arr_aligned) : ~written[1].mask[p[1] + 1][p[2] + 1]

----------------------------------------------------------------------------
(* Claims about mosaic_s1 (specification SpecMosaic) *)

\* the calls made so far to the operation op
CallsOf(op) == {i \in 1..Len(ops) : ops[i].op = op}

\* C11: called with a non-list input or with fewer than 2 identifiers,
\* mosaic_s1 raises before anything is reprojected, clipped, aligned,
\* feathered, collapsed or written.
C11_PreconditionAborts ==
    (~is_list \/ Len(vv_or_vv_paths) < 2)
        => /\ m_pc \in {"call", "raised"}
           /\ ops = << >>
           /\ clipped = << >>
           /\ reprojected = << >>
           /\ \A f \in files : f[1] = "clipped" /\ f[2] \in intersecting

\* a list of one identifier was refused
C11_Witness ==
    /\ m_pc = "raised"
    /\ is_list
    /\ Len(vv_or_vv_paths) = 1
    /\ ops = << >>

\* the clipped paths of the intersecting tiles, in input order
IntersectingClipped ==
    LET kept == SelectSeq(vv_or_vv_paths, LAMBDA t : t \in intersecting)
    IN  AsTuple([i \in 1..Len(kept) |-> ClippedPath(kept[i])], Len(kept))

\* C13: a tile that does not intersect the master raster is skipped
\* without raising and is never in the clipped list; the list passed to
\* alignment holds every intersecting tile once, in input order.
C13_NonIntersectingSkipped ==
    /\ \A i \in 1..Len(clipped) : clipped[i][2] \in intersecting
    /\ (m_pc = "raised" /\ is_list /\ Len(vv_or_vv_paths) >= 2)
          => vv_or_vv_paths[m_idx + 1] \in intersecting
    /\ \A i \in CallsOf("align_rasters") : ops[i].arg = IntersectingClipped

\* three tiles, the middle one outside the master raster, the run returned
C13_Witness ==
    /\ m_pc = "returned"
    /\ Len(vv_or_vv_paths) = 3
    /\ intersecting = {1, 3}
    /\ \E i \in CallsOf("align_rasters") :
          ops[i].arg = <<ClippedPath(1), ClippedPath(3)>>

\* C14: the run goes on to alignment only with at least 2 tiles left
\* after the skips.
C14_FailFastBelowTwo ==
    CallsOf("align_rasters") # {} => Len(clipped) >= 2

\* C15: with skip_completed, a tile whose clipped output exists is not
\* reprojected or clipped again, its path is appended, and the loop goes
\* on to the next tile, whichever tile it is.
C15_SkipCompleted ==
    [][(/\ m_pc = "clipping"
        /\ m_idx < Len(vv_or_vv_paths)
        /\ skip_completed
        /\ ClippedPath(vv_or_vv_paths[m_idx + 1]) \in files)
          => /\ m_pc' = "clipping"
             /\ m_idx' = m_idx + 1
             /\ ops' = ops
             /\ clipped' =
                   Append(clipped, ClippedPath(vv_or_vv_paths[m_idx + 1]))]_vars

\* C15 for the tiles after the first reprojection of the run
SkipCompletedAfterReprojection ==
    [][(/\ m_pc = "clipping"
        /\ m_idx < Len(vv_or_vv_paths)
        /\ skip_completed
        /\ reprojected # << >>
        /\ ClippedPath(vv_or_vv_paths[m_idx + 1]) \in files)
          => /\ m_pc' = "clipping"
             /\ m_idx' = m_idx + 1
             /\ ops' = ops
             /\ clipped' =
                   Append(clipped, ClippedPath(vv_or_vv_paths[m_idx + 1]))]_vars

----------------------------------------------------------------------------
(* Claims about process_aligned's chunking (specification Spec) *)

\* C12: when the rasters are not aligned process_aligned raises, and no
\* stencil has run, no chunk is staged and nothing is written.
C12_AlignmentViolation ==
    (pc # "idle" /\ ~rasters_are_aligned(aligned_rasters))
        => /\ pc \in {"call", "raised"}
           /\ last_call = << >>
           /\ weights_borders = << >>
           /\ chunks_list = << >>
           /\ staging = << >>
           /\ written = << >>

\* a chunked call refused for an origin that is within the threshold of
\* the first raster's but not equal to it
C12_Witness ==
    /\ pc = "raised"
    /\ chunks > 1
    /\ Len(aligned_rasters) > 1
    /\ aligned_rasters[Len(aligned_rasters)].x_min = threshold
    /\ ~rasters_are_aligned(aligned_rasters)

\* C16: after a chunked run has returned, the staging folder holds none
\* of the chunk files of the run.
C16_StagingReleased ==
    (pc = "done" /\ chunks > 1)
        => \A i \in 1..Len(chunks_list) : chunks_list[i] \notin DOMAIN staging

\* the rows lo, .., hi - 1
IntervalSeq(lo, hi) ==
    AsTuple([i \in 1..(hi - lo) |-> lo + i - 1], IF hi > lo THEN hi - lo ELSE 0)

\* the row range of chunk c of k over r rows, as the claims state it
OwnLo(c, k, r) == c * (r \div k)
OwnHi(c, k, r) == IF c < k - 1 THEN (c + 1) * (r \div k) ELSE r

\* C17: for k > 1 and R >= k the trimmed result of chunk i is the rows
\* [i*(R//k), (i+1)*(R//k)), up to R for the last chunk; the staged files
\* are listed in ascending chunk index and the merged array has R rows.
C17_RowPartition ==
    (pc \in {"chunking", "done"} /\ chunks > 1 /\ Rows(arr_aligned) >= chunks)
        => /\ \A i \in 1..Len(last_call) :
                 LET c == last_call[i].chunk
                 IN  /\ last_call[i].kept
                          = IntervalSeq(OwnLo(c, chunks, Rows(arr_aligned)),
                                        OwnHi(c, chunks, Rows(arr_aligned)))
                     /\ Len(staging[ChunkPath(uids, c)]) = Len(last_call[i].kept)
           /\ chunks_list
                 = AsTuple([i \in 1..chunk |-> ChunkPath(uids, i - 1)], chunk)
           /\ pc = "done"
                 => /\ Len(written[1].data) = Rows(arr_aligned)
                    /\ written[1].data
                         = Concatenate(chunks_list, staging)

\* three rows in two chunks: the last chunk takes the odd row
C17_Witness ==
    /\ pc = "done"
    /\ chunks = 2
    /\ Rows(arr_aligned) = 3
    /\ Len(staging[ChunkPath(uids, 0)]) = 1
    /\ Len(staging[ChunkPath(uids, 1)]) = 2
    /\ last_call[1].kept = <<1, 2>>

\* the largest |dx| of a kernel table
MaxDx(offs) ==
    CHOOSE m \in {Abs(offs[n][1]) : n \in 1..Len(offs)} :
        \A n \in 1..Len(offs) : Abs(offs[n][1]) <= m

\* the slice of a call is its chunk's rows and one halo row on each inner
\* side, and the kept rows are the chunk's rows
HaloOf(call) ==
    LET r == Rows(arr_aligned)
        lo == OwnLo(call.chunk, chunks, r)
        hi == OwnHi(call.chunk, chunks, r)
    IN  /\ call.rows
             = IntervalSeq(IF call.chunk # 0 THEN lo - 1 ELSE lo,
                           IF call.chunk # chunks - 1 THEN hi + 1 ELSE hi)
        /\ call.kept = IntervalSeq(lo, hi)
        /\ Len(call.out) = Len(call.rows)

\* C18: every chunk's slice is its own rows and exactly 1 halo row at the
\* start (but for the first chunk) and at the end (but for the last),
\* exactly the halo rows are trimmed, and 1 = kernel_size // 2 is the
\* largest |dx| of the kernel.
C18_HaloRows ==
    (pc \in {"chunking", "done"} /\ chunks > 1)
        => /\ \A i \in 1..Len(last_call) : HaloOf(last_call[i])
           /\ chunk_offset = 1
           /\ chunk_offset = MaxDx(kernel.offsets)

\* C18 for chunk counts up to the number of rows
HaloRowsWithinRows ==
    (pc \in {"chunking", "done"} /\ chunks > 1 /\ chunks <= Rows(arr_aligned))
        => /\ \A i \in 1..Len(last_call) : HaloOf(last_call[i])
           /\ chunk_offset = 1
           /\ chunk_offset = MaxDx(kernel.offsets)

\* C20: with feather rasters given, every s1_collapse call gets, for the
\* stack sample (row, col, t), the loaded feather array's value at
\* (row, col, t): the chunked path in its slices, the unchunked path in
\* weights_borders.
C20_SameFeatherWeights ==
    feather_weights # "None"
        => /\ \A i \in 1..Len(last_call) :
                 \A r \in 1..Len(last_call[i].rows) :
                    last_call[i].fw[r]
                      = feather_weights_arr[last_call[i].rows[r] + 1]
           /\ \A i \in 1..Len(weights_borders) :
                 weights_borders[i]
                   = [kind |-> "array", arr |-> feather_weights_arr]

\* C20 for the chunked path alone
ChunkedFeatherWeights ==
    (feather_weights # "None" /\ chunks > 1)
        => \A i \in 1..Len(last_call) :
              \A r \in 1..Len(last_call[i].rows) :
                 last_call[i].fw[r]
                   = feather_weights_arr[last_call[i].rows[r] + 1]

----------------------------------------------------------------------------
(* Claims about the layers s1_collapse reads (specification SpecCollapse) *)

\* the layer (0-based) that the index z reads: a negative index wraps
LayerRead(a, z) == IF z < 0 THEN Depth(a) + z ELSE z

\* the layers some kernel offset reads at some pixel without being
\* marked outside
LayersRead ==
    {LayerRead(arr, Candidate(arr, p[1], p[2], offsets[n]).z) :
        <<p, n>> \in {pn \in Pixels(arr) \X (1..Len(offsets)) :
                        ~Candidate(arr, pn[1][1], pn[1][2],
                                   offsets[pn[2]]).outside}}

\* the kernel table has an offset (0, 0, dz) for every |dz| < D
FullDepthKernel ==
    \A dz \in (1 - Depth(arr))..(Depth(arr) - 1) :
        \E n \in 1..Len(offsets) : offsets[n] = <<0, 0, dz>>

\* C19: for every depth D >= 2, odd or even, and a kernel that spans the
\* stack, every layer 0..D-1 is read by an offset that is not marked
\* outside.
C19_TemporalCoverage ==
    (c_pc = "returned" /\ Depth(arr) >= 2 /\ FullDepthKernel)
        => LayersRead = 0..(Depth(arr) - 1)

\* C19 for odd depths
TemporalCoverageOddDepth ==
    (c_pc = "returned" /\ Depth(arr) % 2 = 1 /\ FullDepthKernel)
        => LayersRead = 0..(Depth(arr) - 1)

\* the candidates of the call that are not marked outside, as
\* <<pixel, index into the kernel table>>
Accepted ==
    {pn \in Pixels(arr) \X (1..Len(offsets)) :
        ~Candidate(arr, pn[1][1], pn[1][2], offsets[pn[2]]).outside}

\* reference index 0 with wrap-around
WrappedLayer(d, dz) == IF dz >= 0 THEN dz ELSE d + dz

\* the layer an accepted offset reads is WrappedLayer of its dz, at every
\* pixel, the value read is that layer's sample, and offsets with
\* different dz read different layers
OffsetLayers ==
    /\ \A pn \in Accepted :
          LET c == Candidate(arr, pn[1][1], pn[1][2], offsets[pn[2]])
              l == WrappedLayer(Depth(arr), offsets[pn[2]][3])
          IN  /\ LayerRead(arr, c.z) = l
              /\ l \in 0..(Depth(arr) - 1)
              /\ ReadAt(arr, c) = arr[c.x + 1][c.y + 1][l + 1]
    /\ \A pn, qn \in Accepted :
          LET c == Candidate(arr, pn[1][1], pn[1][2], offsets[pn[2]])
              e == Candidate(arr, qn[1][1], qn[1][2], offsets[qn[2]])
          IN  /\ offsets[pn[2]][3] = offsets[qn[2]][3]
                    => LayerRead(arr, c.z) = LayerRead(arr, e.z)
              /\ offsets[pn[2]][3] # offsets[qn[2]][3]
                    => LayerRead(arr, c.z) # LayerRead(arr, e.z)

\* C28 as stated: the layer read for an accepted dz does not depend on the
\* pixel, is dz for dz >= 0 and D + dz for dz < 0, differs for different
\* dz, and for dz = 0 is layer 0 and not the midpoint layer D // 2.
C28_LayerZeroNotMidpoint ==
    c_pc = "returned"
        => /\ OffsetLayers
           /\ \A pn \in Accepted :
                 offsets[pn[2]][3] = 0
                   => LET c == Candidate(arr, pn[1][1], pn[1][2],
                                         offsets[pn[2]])
                      IN  /\ LayerRead(arr, c.z) = 0
                          /\ LayerRead(arr, c.z) # Depth(arr) \div 2

\* C28 for the stacks where layer 0 and the midpoint layer differ: as
\* above, with "not the midpoint layer" said of stacks of two or more
\* layers only (in a one-layer stack D // 2 = 0 is the layer read).
C28_LayerForOffset ==
    c_pc = "returned"
        => /\ OffsetLayers
           /\ \A pn \in Accepted :
                 offsets[pn[2]][3] = 0
                   => LET c == Candidate(arr, pn[1][1], pn[1][2],
                                         offsets[pn[2]])
                      IN  /\ LayerRead(arr, c.z) = 0
                          /\ Depth(arr) >= 2
                                => LayerRead(arr, c.z) # Depth(arr) \div 2

\* three layers with different samples at pixel (0, 0): dz = -1 is
\* accepted and reads the last layer, dz = 0 the first, dz = 1 the second
C28_Witness ==
    /\ c_pc = "returned"
    /\ Depth(arr) = 3
    /\ arr[1][1][1] # arr[1][1][2]
    /\ arr[1][1][1] # arr[1][1][3]
    /\ \E n \in 1..Len(offsets) :
          /\ offsets[n] = <<0, 0, -1>>
          /\ <<<<0, 0>>, n>> \in Accepted
          /\ ReadAt(arr, Candidate(arr, 0, 0, offsets[n])) = arr[1][1][3]
    /\ \E n \in 1..Len(offsets) :
          /\ offsets[n] = <<0, 0, 0>>
          /\ <<<<0, 0>>, n>> \in Accepted
          /\ ReadAt(arr, Candidate(arr, 0, 0, offsets[n])) = arr[1][1][1]

----------------------------------------------------------------------------
(* hood_quantile when values repeat (SpecTies) *)

SortAscending ==
    (q_pc = "evaluated" /\ sort_mask # << >>)
        => /\ Len(sort_mask) = Len(values)
           /\ {sort_mask[i] : i \in 1..Len(sort_mask)} = 1..Len(values)
           /\ \A i, j \in 1..Len(sort_mask) : i < j
                 => values[sort_mask[i]] <= values[sort_mask[j]]

SortAscending_Witness ==
    /\ q_pc = "evaluated"
    /\ sort_kind = "reverse"
    /\ values = <<10, -10, 10>>
    /\ sort_mask = <<2, 3, 1>>

MinOf(v) == CHOOSE m \in {v[i] : i \in 1..Len(v)} :
                \A i \in 1..Len(v) : m <= v[i]
MaxOf(v) == CHOOSE m \in {v[i] : i \in 1..Len(v)} :
                \A i \in 1..Len(v) : m >= v[i]

AllPositive(w) == \A i \in 1..Len(w) : w[i] > 0

\* C25: with all weights positive, a quantile at or below the first
\* position p_1 = w_(1) / (2 W) returns the smallest value and one at or
\* above the last position p_n = 1 - w_(n) / (2 W) the largest; every
\* quantile in [0, 1] gives a result between the smallest and the largest
\* value.
C25_ClampedAtEnds ==
    (q_pc = "evaluated" /\ sort_mask # << >>)
        => LET n == Len(values)
               W == SumSeq(weights)
               first == weights[sort_mask[1]]
               last == weights[sort_mask[n]]
           IN  /\ RatLE(<<MinOf(values), 1>>, q_result)
               /\ RatLE(q_result, <<MaxOf(values), 1>>)
               /\ AllPositive(weights)
                     => /\ quant[1] * 2 * W <= first * quant[2]
                              => q_result = <<MinOf(values), 1>>
                        /\ quant[1] * 2 * W >= (2 * W - last) * quant[2]
                              => q_result = <<MaxOf(values), 1>>

\* two values with equal positive weights: p_1 = 1/4 and p_2 = 3/4, asked
\* exactly at p_1, where the smallest value comes back and not the largest
C25_Witness ==
    /\ q_pc = "evaluated"
    /\ values = <<30, -10>>
    /\ weights = <<1, 1>>
    /\ quant = <<1, 4>>
    /\ q_result = <<-10, 1>>

\* C27: the result does not depend on the order of the (value, weight)
\* pairs, also when pairs share a value but carry different weights
\* (exchanging neighbours generates every permutation).
C27_OrderIndependent ==
    (q_pc = "evaluated" /\ sort_mask # << >>) => swapped_result = q_result

\* what does hold: the order does not matter when no two pairs that share
\* a value carry different weights
OrderIndependentWithoutWeightedTies ==
    (/\ q_pc = "evaluated"
     /\ sort_mask # << >>
     /\ \A i, j \in 1..Len(values) :
           values[i] = values[j] => weights[i] = weights[j])
        => swapped_result = q_result

OrderIndependentWithoutWeightedTies_Witness ==
    /\ q_pc = "evaluated"
    /\ values = <<30, -10, 10>>
    /\ weights = <<2, 1, 1>>
    /\ swap = 1
    /\ quant = <<2, 4>>
    /\ q_result = <<50, 3>>
    /\ swapped_result = q_result

----------------------------------------------------------------------------
(* The nodata sentinel through mosaic_s1 (specification SpecMosaic) *)

\* C29: the sentinel the caller passes to mosaic_s1 is the one every stage
\* of the run uses: the feather-weight computation targets it, the stencil
\* excludes samples equal to it and the final mask is built from it, for
\* every nodata_value.
C29_CallerSentinelEverywhere ==
    m_pc = "returned"
        => \A i \in 1..Len(stage_nodata) :
              stage_nodata[i].value = m_nodata_value

\* what does hold: the stencil and the mask use the caller's sentinel, and
\* the feather-weight computation does when the caller's is -9999
SentinelInStencilAndMask ==
    m_pc = "returned"
        => /\ \E i \in 1..Len(stage_nodata) :
                 stage_nodata[i] = StageUse("s1_collapse", m_nodata_value)
           /\ \E i \in 1..Len(stage_nodata) :
                 stage_nodata[i] = StageUse("mask", m_nodata_value)
           /\ \A i \in 1..Len(stage_nodata) :
                 (stage_nodata[i].stage # "calc_proximity"
                    \/ m_nodata_value = -9999)
                   => stage_nodata[i].value = m_nodata_value

SentinelInStencilAndMask_Witness ==
    /\ m_pc = "returned"
    /\ m_nodata_value = 0
    /\ Len(stage_nodata) = 3

----------------------------------------------------------------------------
(* The order of staging in a chunked run (specification Spec) *)

\* the chunks whose stencil has run and whose result is not in the store
Pending ==
    {c \in 0..(chunk - 1) : ChunkPath(uids, c) \notin DOMAIN staging}

\* C22: in a chunked run the trimmed result of chunk i is in the staging
\* store before the slice of chunk i+1 is taken and its stencil starts: an
\* iteration for chunk c starts with the results of chunks 0..c-1 staged
\* and its own not, runs one stencil, and ends with its own trimmed
\* result staged, so no more than the one result of the running iteration
\* is ever computed and not staged.
C22_SavedBeforeNextSlice ==
    [][(pc = "chunking" /\ chunk' = chunk + 1)
          => /\ Pending = {}
             /\ ChunkPath(uids, chunk) \notin DOMAIN staging
             /\ Len(last_call') = 1
             /\ last_call'[1].chunk = chunk
             /\ ChunkPath(uids, chunk) \in DOMAIN staging'
             /\ staging'[ChunkPath(uids, chunk)]
                   = PySlice(last_call'[1].out, OffsetStart(chunk),
                             OffsetEnd(chunk, chunks,
                                       Len(last_call'[1].out)))
             /\ \A c \in 0..(chunk - 1) :
                   staging'[ChunkPath(uids, c)] = staging[ChunkPath(uids, c)]
             /\ Cardinality({c \in 0..chunk :
                                ChunkPath(uids, c) \notin DOMAIN staging}) <= 1]_vars

\* the third of three chunks is about to be sliced and the first two
\* results, both with rows, are in the store
C22_Witness ==
    /\ pc = "chunking"
    /\ chunks = 3
    /\ chunk = 2
    /\ Pending = {}
    /\ Len(staging[ChunkPath(uids, 0)]) >= 1
    /\ Len(staging[ChunkPath(uids, 1)]) >= 1
    /\ staging[ChunkPath(uids, 0)] # staging[ChunkPath(uids, 1)]

----------------------------------------------------------------------------
(* Locality of the stencil (specification SpecLocal) *)

\* the stack a with every sample outside rows x-1..x+1 and columns
\* y-1..y+1 (0-based pixel (x, y), all layers) replaced by v
FilledOutside(a, x, y, v) ==
    [i \in 1..Rows(a) |-> [j \in 1..Cols(a) |-> [z \in 1..Depth(a) |->
        IF Abs((i - 1) - x) <= 1 /\ Abs((j - 1) - y) <= 1
        THEN a[i][j][z] ELSE v]]]

\* C24: the output at pixel (x, y) depends only on the stack and feather
\* samples in rows x-1..x+1 and columns y-1..y+1 and on the kernel table.
\* Every stack gives at (x, y) what the stack gives whose samples outside
\* the window are all 30 with feather weight 2; two stacks that agree on
\* the window have the same such stack, hence the same output.
C24_StencilLocal ==
    c_pc = "returned"
        => \A p \in Pixels(arr) :
              result[p[1] + 1][p[2] + 1]
                = Pixel(FilledOutside(arr, p[1], p[2], 30), offsets,
                        kernel_weights, FilledOutside(feather, p[1], p[2], 2),
                        quantile, nodata, NoDataValue, weighted, p[1], p[2])

\* three rows of three layers without nodata: the first pixel's window is
\* rows 0 and 1, row 2 holds other values than the fill, and the output
\* is a backscatter
C24_Witness ==
    /\ c_pc = "returned"
    /\ Rows(arr) = 3
    /\ Depth(arr) = 3
    /\ \A i, z \in 1..3 : arr[i][1][z] # NoDataValue
    /\ \A z \in 1..3 : FilledOutside(arr, 0, 0, 30)[3][1][z] # arr[3][1][z]
    /\ result[1][1] # <<NoDataValue, 1>>

----------------------------------------------------------------------------
(* Staging keys of overlapping runs (specification SpecStaging) *)

KeysOf(r) == {run_list[r][i] : i \in 1..Len(run_list[r])}

\* C23: within a run the chunks go to pairwise distinct keys, two
\* overlapping runs that share the folder use disjoint key sets, and no
\* chunk overwrites or reads another chunk's or another run's artifact:
\* every staged key still holds what its own run and chunk wrote, and
\* every load returned the artifact of the loading run's own chunk.
C23_KeysNeverCollide ==
    \A r \in DOMAIN run_list :
       /\ \A i, j \in 1..Len(run_list[r]) :
             i # j => run_list[r][i] # run_list[r][j]
       /\ \A o \in DOMAIN run_list : o # r => KeysOf(r) \cap KeysOf(o) = {}
       /\ \A i \in 1..Len(run_list[r]) :
             /\ run_list[r][i] \in DOMAIN folder
             /\ folder[run_list[r][i]] = Artifact(r, i - 1)
       /\ \A i \in 1..Len(run_merged[r]) :
             run_merged[r][i] = Artifact(r, i - 1)

\* two runs in flight at once: the first is loading its three files while
\* the second, started before the first finished saving, is still saving
C23_Witness ==
    /\ DOMAIN run_pc = Runs
    /\ run_pc[1] = "merging"
    /\ Len(run_list[1]) = 3
    /\ Len(run_merged[1]) = 2
    /\ run_pc[2] = "chunking"
    /\ Len(run_list[2]) = 1
    /\ run_uids[2] = <<"uuid4", 1>>
    /\ Cardinality(DOMAIN folder) = 4
====
